---- MODULE Spec2Model ----
(***************************************************************************)
(* Mixed-precision convolution engine of CMSIS-NN (INT-Q extension):       *)
(*   arm_convolve_HWC_u2_u2_u8_icn          ("icn": u2 in, u2 out, u8 wt)  *)
(*   arm_convolve_HWC_u8_u8_u2_PACT_CH_thr  ("thr": u8 in, u8 out, u2 wt)  *)
(*   arm_nn_mat_mult_kernel_reordered_u2_int16_u4_PACT_CH_thr ("u4k")      *)
(* One call is one behaviour: Init draws the call's arguments, the actions *)
(* are the size check, one patch extraction per output position and       *)
(* region, the hand-off to the dot-product kernel, the tail path and the   *)
(* return.  Offsets stand for pointers: pBuffer counts int16 elements from *)
(* bufferA, pOut counts bytes from Im_out, pA counts bytes from wt.        *)
(***************************************************************************)
EXTENDS Integers, Sequences, FiniteSets, TLC

\* ------------------------------------------------------------------ bounds
MaxDim == 2   \* dim_im_in in 1..MaxDim
MaxPad == 2   \* each of the four paddings in 0..MaxPad
MaxOut == 3   \* only geometries with dim_im_out <= MaxOut are drawn

\* ------------------------------------------------------- program constants
\* the arm_status values the functions return, by their enumerator names
ARM_MATH_SUCCESS       == "ARM_MATH_SUCCESS"
ARM_MATH_SIZE_MISMATCH == "ARM_MATH_SIZE_MISMATCH"
\* status value of a call that has not returned yet (no C counterpart)
Running == "running"

VARIABLES
  arg,         \* the call's scalar arguments (a record, never assigned)
  Im_in,       \* input tensor, one raw sample per logical element
  bufferA,     \* scratch buffer, 2*N int16 elements
  Im_out,      \* output bytes, offset -> byte
  pc,          \* position of the call
  reg,         \* region whose loop body is running
  i_out_y, i_out_x,
  pBuffer,     \* fill pointer, elements from bufferA
  pOut,        \* output cursor, bytes from Im_out
  status,      \* returned arm_status, or Running
  extracted,   \* history: output positions a patch was built for, in order
  kernelCalls, \* history: number of dot-product kernel dispatches
  tailRuns,    \* history: number of times the tail path ran
  tailBase,    \* history: pOut when the tail path started
  tailAcc,     \* history: the tail path's accumulator of each output channel
  quant,       \* history: per output channel, the requantized values computed
  i_row,       \* u4 kernel: the loop counter i over the rows of A
  pA,          \* u4 kernel: weight pointer, bytes from the weight base
  pOut2,       \* u4 kernel: output cursor of the second patch
  written,     \* history: offsets of Im_out that were stored to
  fresh,       \* history: patch slots of bufferA written and not yet consumed
  misuse       \* history: a patch was overwritten unread, or a stale slot consumed

vars == <<arg, Im_in, bufferA, Im_out, pc, reg, i_out_y, i_out_x, pBuffer, pOut,
          status, extracted, kernelCalls, tailRuns, tailBase, tailAcc, quant,
          i_row, pA, pOut2, written, fresh, misuse>>

\* ------------------------------------------------------------- arguments
fn             == arg.fn
dim_im_in      == arg.dim_im_in
ch_im_in       == arg.ch_im_in
ch_im_out      == arg.ch_im_out
dim_kernel     == arg.dim_kernel
left_padding   == arg.left_padding
right_padding  == arg.right_padding
top_padding    == arg.top_padding
bottom_padding == arg.bottom_padding
stride         == arg.stride
dim_im_out     == arg.dim_im_out
z_in           == arg.z_in
numCol_A       == arg.numCol_A

\* the call of the end-to-end example: 5x5 single-channel u2 input, 3x3 kernel,
\* stride 1, no padding, input zero-point 0
Example ==
  [fn |-> "icn", ch_im_in |-> 1, ch_im_out |-> 1, dim_im_in |-> 5, dim_kernel |-> 3,
   stride |-> 1, left_padding |-> 0, right_padding |-> 0, top_padding |-> 0,
   bottom_padding |-> 0, dim_im_out |-> 3, z_in |-> 0]
IsExample == arg = Example

\* ch_im_in*dim_kernel*dim_kernel: elements of one patch, columns of a weight row
PatchLen == ch_im_in * dim_kernel * dim_kernel

\* ------------------------------------------------------------ size check
\* variant: both functions demand multiples of 16
SizeMismatchSixteen(f, ci, co) == ci % 16 # 0 \/ co % 16 # 0

\* the precondition each convolution validates
SizeMismatch(f, ci, co) ==
  IF f = "icn" THEN ci % 16 # 0 \/ co % 16 # 0
               ELSE ci % 4 # 0 \/ co % 4 # 0

\* --------------------------------------------------------------- codec
\* position j of a converted block of n elements holds source element
\* ReorderIdx(j, n): within each complete group of four the two middle
\* elements are exchanged; a trailing incomplete group keeps its order
ReorderIdx(j, n) ==
  IF j >= n - (n % 4) THEN j
  ELSE CASE j % 4 = 1 -> j + 1
         [] j % 4 = 2 -> j - 1
         [] OTHER     -> j

\* the raw sample at logical element e of the input tensor; an element outside
\* the tensor is whatever the adjacent memory holds (g)
RawAt(e, g) == IF e >= 0 /\ e < Len(Im_in) THEN Im_in[e + 1] ELSE g

\* logical element a Codec source pointer stands at for input pixel (row, col):
\* the u2 tensor is addressed in bytes of four samples, the u8 tensor in samples
SrcElem(row, col) ==
  IF fn = "icn" THEN 4 * (((row * dim_im_in + col) * ch_im_in) \div 4)
                ELSE (row * dim_im_in + col) * ch_im_in

\* arm_u2_to_int16_reordered / arm_u8_to_int16_reordered: element m of the
\* n-element block converted from source element src, zero-point subtracted
CodecAt(src, m, n, g) == RawAt(src + ReorderIdx(m, n), g) - z_in

\* --------------------------------------------------------- patch extraction
KerRow(y, j) == y * stride - top_padding + (j \div (ch_im_in * dim_kernel))
KerCol(x, j) == x * stride - left_padding + ((j \div ch_im_in) % dim_kernel)

\* per-pixel loop of the top and bottom regions: rows and columns are checked
PatchRowColChecked(y, x, g) ==
  [j \in 1..PatchLen |->
    LET r == KerRow(y, j - 1)
        c == KerCol(x, j - 1)
    IN IF r < 0 \/ r >= dim_im_in \/ c < 0 \/ c >= dim_im_in
       THEN 0
       ELSE CodecAt(SrcElem(r, c), (j - 1) % ch_im_in, ch_im_in, g)]

\* per-pixel loop of the left and right regions: only columns are checked
PatchColChecked(y, x, g) ==
  [j \in 1..PatchLen |->
    LET r == KerRow(y, j - 1)
        c == KerCol(x, j - 1)
    IN IF c < 0 \/ c >= dim_im_in
       THEN 0
       ELSE CodecAt(SrcElem(r, c), (j - 1) % ch_im_in, ch_im_in, g)]

\* bulk copy of the interior region: one Codec call per kernel row
PatchBulk(y, x, g) ==
  [j \in 1..PatchLen |->
    LET r == KerRow(y, j - 1)
    IN CodecAt(SrcElem(r, x * stride - top_padding),
               (j - 1) % (ch_im_in * dim_kernel), ch_im_in * dim_kernel, g)]

\* the scratch buffer after a patch was written at the fill pointer
WritePatch(buf, at, patch) ==
  [j \in 1..Len(buf) |->
    IF j > at /\ j <= at + Len(patch) THEN patch[j - at] ELSE buf[j]]

\* ------------------------------------------------------------ loop control
\* (int16_t) of a 32-bit integer: the low halfword, sign-extended
I16(x) == ((x + 32768) % 65536) - 32768

\* the next loop body to run, from loop head h with the counters (y, x); the
\* counters are int16_t, the bounds they are compared with are promoted to int
RECURSIVE LoopHead(_, _, _)
LoopHead(h, y, x) ==
  CASE h = "top_y"    -> IF y < top_padding
                         THEN LoopHead("top_x", y, 0)
                         ELSE LoopHead("mid_y", y, x)
    [] h = "top_x"    -> IF x < dim_im_out
                         THEN <<"body", "top", y, x>>
                         ELSE LoopHead("top_y", I16(y + 1), x)
    [] h = "mid_y"    -> IF y < dim_im_out - bottom_padding
                         THEN LoopHead("left_x", y, 0)
                         ELSE LoopHead("bottom_y", y, x)
    [] h = "left_x"   -> IF x < left_padding
                         THEN <<"body", "left", y, x>>
                         ELSE LoopHead("mid_x", y, x)
    [] h = "mid_x"    -> IF x < dim_im_out - right_padding
                         THEN <<"body", "mid", y, x>>
                         ELSE LoopHead("right_x", y, x)
    [] h = "right_x"  -> IF x < dim_im_out
                         THEN <<"body", "right", y, x>>
                         ELSE LoopHead("mid_y", I16(y + 1), x)
    [] h = "bottom_y" -> IF y < dim_im_out
                         THEN LoopHead("bottom_x", y, 0)
                         ELSE <<"tail", "none", y, x>>
    [] OTHER          -> IF x < dim_im_out
                         THEN <<"body", "bottom", y, x>>
                         ELSE LoopHead("bottom_y", I16(y + 1), x)

\* the x-loop head a region's body returns to
XHead(r) ==
  CASE r = "top"   -> "top_x"
    [] r = "left"  -> "left_x"
    [] r = "mid"   -> "mid_x"
    [] r = "right" -> "right_x"
    [] OTHER       -> "bottom_x"

\* ------------------------------------------------------------ intrinsics
\* __USAT: saturate to the unsigned range of the given number of bits
USAT(x, bits) == IF x < 0 THEN 0 ELSE IF x > 2^bits - 1 THEN 2^bits - 1 ELSE x

\* saturation of one halfword lane, as __SSUB16 does
Sat16(x) == IF x < 0 - 32768 THEN 0 - 32768 ELSE IF x > 32767 THEN 32767 ELSE x

\* __SSUB16 on a word of two halfword lanes <<low, high>>
SSUB16(a, b) == <<Sat16(a[1] - b[1]), Sat16(a[2] - b[2])>>

\* __SMLAD: dual halfword multiply, both products added to the accumulator
SMLAD(a, b, sum) == sum + a[1] * b[1] + a[2] * b[2]

\* (uint8_t) of an integer
U8(x) == x % 256

\* bitwise or of two bytes
RECURSIVE BitOr(_, _)
BitOr(a, b) ==
  IF a = 0 THEN b
  ELSE IF b = 0 THEN a
  ELSE (IF a % 2 = 1 \/ b % 2 = 1 THEN 1 ELSE 0) + 2 * BitOr(a \div 2, b \div 2)

\* bitwise and of two bytes
RECURSIVE BitAnd(_, _)
BitAnd(a, b) ==
  IF a = 0 \/ b = 0 THEN 0
  ELSE (IF a % 2 = 1 /\ b % 2 = 1 THEN 1 ELSE 0) + 2 * BitAnd(a \div 2, b \div 2)

\* t[lo] + ... + t[hi]: the total a loop adds to its accumulator, t[k] being
\* what iteration k adds (no accumulator leaves 32 bits within the bounds, so
\* the order of the additions does not matter)
RECURSIVE SumSeq(_, _, _)
SumSeq(t, lo, hi) ==
  IF lo > hi THEN 0
  ELSE IF lo = hi THEN t[lo]
  ELSE LET mid == (lo + hi) \div 2
       IN SumSeq(t, lo, mid) + SumSeq(t, mid + 1, hi)

\* __HI_SMULL: upper 32 bits of the 64-bit product, computed through the
\* 16-bit halves of m so that no intermediate leaves 32 bits (|a| < 2^14 here)
HI_SMULL(a, m) ==
  LET mh == m \div 65536
      ml == m % 65536
  IN (a * mh + ((a * ml) \div 65536)) \div 65536

\* __n_zero_negative_normalization: a negative shift becomes a left pre-shift,
\* a non-negative one a right post-shift; <<n_zero1, n_zero2>>
NZeroNormalization(n) == IF n < 0 THEN <<0 - n, 0>> ELSE <<0, n>>

\* ------------------------------------------------- caller-supplied parameters
\* contents of wt as the caller passes it, indexed by byte offset: u8 weights
\* for icn, four packed u2 weights a byte otherwise
WtByte(b) == IF fn = "icn" THEN (b * 3 + (b \div 5)) % 6 ELSE (b * 37 + 11) % 256

\* 2-bit field k of a packed byte, field 0 in the least significant bits
U2Field(byte, k) == (byte \div (4 ^ k)) % 4

\* bias[i]; the example call passes bias 0
biasAt(i) == IF IsExample THEN 0 ELSE (i % 5) - 2

\* weight zero-point: the scalar z_wt of icn, z_wt[i] of the per-channel variant
\* (0 in the example call)
z_wtAt(i) == IF IsExample THEN 0 ELSE IF fn = "icn" THEN 1 ELSE i % 3

\* output zero-point, multipliers and shifts of the ICN fold; the example call
\* passes z_out 0, m_zero 1<<30 and the shift 13, which make the fold sum>>15
z_out == IF IsExample THEN 0 ELSE 1
m_zeroAt(i) == 2 ^ 30
n_zeroAt(i) == IF IsExample THEN 13 ELSE IF i = 0 THEN 0 - 1 ELSE 3 + (i % 3)

\* ------------------------------------------------------------ requantizers
\* ICN folding: ((sum << n_zero1) *hi m_zero) >> n_zero2, plus z_out
IcnRequant(sum, i) ==
  LET nz == NZeroNormalization(n_zeroAt(i))
  IN (HI_SMULL(sum * (2 ^ nz[1]), m_zeroAt(i)) \div (2 ^ nz[2])) + z_out

\* the u8 output stage of the per-channel variant: plain saturating cast
ThrRequantU8(sum) == USAT(sum, 8)

\* ------------------------------------------------- bulk dot-product kernels
\* weight at flat logical index c of the weight tensor (row-major, channel rows)
WeightAt(c) ==
  IF fn = "icn" THEN WtByte(c) ELSE U2Field(WtByte(c \div 4), c % 4)

\* what four columns from column j on add to the sum of a weight row: scratch
\* positions j..j+3 hold the logical columns j, j+2, j+1, j+3
DotStep(wrow, z, buf, off, j) ==
  (WeightAt(wrow + j) - z) * buf[off + j + 1]
  + (WeightAt(wrow + j + 2) - z) * buf[off + j + 2]
  + (WeightAt(wrow + j + 1) - z) * buf[off + j + 3]
  + (WeightAt(wrow + j + 3) - z) * buf[off + j + 4]

\* bias-seeded sum of output channel i over the patch in the given slot
KernelAcc(i, buf, slot) ==
  LET n == PatchLen
  IN biasAt(i)
     + SumSeq([b \in 0..((n \div 4) - 1) |->
                DotStep(i * n, z_wtAt(i), buf, slot * n, 4 * b)], 0, (n \div 4) - 1)

\* output bytes one position takes
BytesPerPos == IF fn = "icn" THEN ch_im_out \div 4 ELSE ch_im_out

\* byte k of the block the kernel stores for the patch in the given slot
KernelByte(buf, slot, k) ==
  IF fn = "icn"
  THEN 64 * USAT(IcnRequant(KernelAcc(4 * k, buf, slot), 4 * k), 2)
       + 16 * USAT(IcnRequant(KernelAcc(4 * k + 1, buf, slot), 4 * k + 1), 2)
       + 4 * USAT(IcnRequant(KernelAcc(4 * k + 2, buf, slot), 4 * k + 2), 2)
       + USAT(IcnRequant(KernelAcc(4 * k + 3, buf, slot), 4 * k + 3), 2)
  ELSE ThrRequantU8(KernelAcc(k, buf, slot))

\* arm_nn_mat_mult_kernel_reordered_u8_int16_u2_icn and
\* arm_nn_mat_mult_kernel_reordered_u2_int16_u8_PACT_CH_thr: the outputs of the
\* first patch at pOut, those of the second right behind them
KernelStore(out, buf, at) ==
  [o \in (DOMAIN out) \cup (at .. at + 2 * BytesPerPos - 1) |->
    IF o >= at /\ o < at + 2 * BytesPerPos
    THEN KernelByte(buf, (o - at) \div BytesPerPos, (o - at) % BytesPerPos)
    ELSE out[o]]

\* ----------------------------------------------------------------- tail path
\* a store through pOut
StoreByte(out, at, v) ==
  [o \in (DOMAIN out) \cup {at} |-> IF o = at THEN v ELSE out[o]]

\* one pass of the blocked loop of the icn tail: four u8 weights
\* (read_and_pad_reordered_u8: lanes <<w0,w2>>, <<w1,w3>>) against two words of
\* the patch; what the pass adds to sum
TailBlocksIcn(buf, wptr, pB) ==
  LET inzA == <<z_wtAt(0), z_wtAt(0)>>
      inA1 == SSUB16(<<WtByte(wptr), WtByte(wptr + 2)>>, inzA)
      inA2 == SSUB16(<<WtByte(wptr + 1), WtByte(wptr + 3)>>, inzA)
      inB1 == <<buf[pB + 1], buf[pB + 2]>>
      inB2 == <<buf[pB + 3], buf[pB + 4]>>
  IN SMLAD(inA2, inB2, SMLAD(inA1, inB1, 0))

\* one pass of the scalar remainder loop of the icn tail, in uint8_t arithmetic
TailRestIcn(buf, wptr, pB) ==
  LET inB1 == U8(buf[pB + 1])
      inA1 == U8(WtByte(wptr) - z_wtAt(0))
  IN inA1 * inB1

\* uint16_t colCnt of the icn tail's blocked loop: N >> 2, kept in 16 bits
TailColCntIcn == (PatchLen \div 4) % 65536

\* colCnt of the icn tail's remainder loop: N & 0x3
TailRestCntIcn == PatchLen % 4

\* bytes of wt one channel of the tail consumes. pA is set to wt before the
\* channel loop and only the column loops advance it: by four bytes a blocked
\* step in both tails, by one byte a remainder step in the icn tail and not at
\* all in the remainder loop of the thr tail
TailRowBytes ==
  IF fn = "icn" THEN 4 * TailColCntIcn + TailRestCntIcn
                ELSE 4 * (PatchLen \div 16)

\* the accumulator of output channel i when the icn tail leaves its column loops
TailSumIcn(buf, i) ==
  LET nb == TailColCntIcn
      nr == TailRestCntIcn
      w0 == i * TailRowBytes
  IN biasAt(i)
     + SumSeq([k \in 0..(nb - 1) |-> TailBlocksIcn(buf, w0 + 4 * k, 4 * k)], 0, nb - 1)
     + SumSeq([k \in 0..(nr - 1) |->
                TailRestIcn(buf, w0 + 4 * nb + k, 4 * nb + k)], 0, nr - 1)

\* the value the icn tail hands to the store switch for channel i
TailQuantIcn(buf, i) == USAT(IcnRequant(TailSumIcn(buf, i), i), 2)

\* channel loop of the icn tail from channel i on, with the switch that stores
\* one u2 output; st carries the output, pOut, pOut_per_byte and the offsets
\* stored to
RECURSIVE TailIcn(_, _, _)
TailIcn(buf, i, st) ==
  IF i >= ch_im_out THEN st
  ELSE LET q == TailQuantIcn(buf, i)
       IN CASE st.per_byte = 4 ->
                 TailIcn(buf, i + 1,
                   [st EXCEPT !.out = StoreByte(@, st.pOut, q),
                              !.wr = @ \cup {st.pOut},
                              !.per_byte = @ - 1])
            [] st.per_byte = 3 ->
                 TailIcn(buf, i + 1,
                   [st EXCEPT !.out = StoreByte(@, st.pOut, BitOr(@[st.pOut], q * 4)),
                              !.wr = @ \cup {st.pOut},
                              !.per_byte = @ - 1])
            [] st.per_byte = 2 ->
                 TailIcn(buf, i + 1,
                   [st EXCEPT !.out = StoreByte(@, st.pOut, BitOr(@[st.pOut], q * 16)),
                              !.wr = @ \cup {st.pOut},
                              !.per_byte = @ - 1])
            [] st.per_byte = 1 ->
                 TailIcn(buf, i + 1,
                   [st EXCEPT !.out = StoreByte(@, st.pOut, BitOr(@[st.pOut], q * 64)),
                              !.wr = @ \cup {st.pOut},
                              !.pOut = @ + 1,
                              !.per_byte = @ - 4])
            [] OTHER -> TailIcn(buf, i + 1, st)

\* read_and_pad_reordered_uint2: sixteen u2 weights of four bytes in eight words,
\* word k holding the lanes that meet word k of a reordered patch
PadU2Word(wptr, k) ==
  LET lo == 4 * (k \div 2) + (k % 2)
  IN <<U2Field(WtByte(wptr + (lo \div 4)), lo % 4),
       U2Field(WtByte(wptr + ((lo + 2) \div 4)), (lo + 2) % 4)>>

\* word k of the patch from element pB on
PatchWord(buf, pB, k) == <<buf[pB + 2 * k + 1], buf[pB + 2 * k + 2]>>

\* one pass of the blocked loop of the thr tail: the ten multiply-accumulates
\* as written, inA3 and inA4 being offset and used a second time, ten words of
\* the patch being read; what the pass adds to sum
TailBlocksThr(buf, i, wptr, pB) ==
  LET inzA == <<z_wtAt(i), z_wtAt(i)>>
      inA1 == SSUB16(PadU2Word(wptr, 0), inzA)
      inA2 == SSUB16(PadU2Word(wptr, 1), inzA)
      inA3 == SSUB16(PadU2Word(wptr, 2), inzA)
      inA4 == SSUB16(PadU2Word(wptr, 3), inzA)
      inA3b == SSUB16(inA3, inzA)
      inA4b == SSUB16(inA4, inzA)
      inA5 == SSUB16(PadU2Word(wptr, 4), inzA)
      inA6 == SSUB16(PadU2Word(wptr, 5), inzA)
      inA7 == SSUB16(PadU2Word(wptr, 6), inzA)
      inA8 == SSUB16(PadU2Word(wptr, 7), inzA)
  IN SMLAD(inA1, PatchWord(buf, pB, 0), 0) + SMLAD(inA2, PatchWord(buf, pB, 1), 0)
     + SMLAD(inA3, PatchWord(buf, pB, 2), 0) + SMLAD(inA4, PatchWord(buf, pB, 3), 0)
     + SMLAD(inA3b, PatchWord(buf, pB, 4), 0) + SMLAD(inA4b, PatchWord(buf, pB, 5), 0)
     + SMLAD(inA5, PatchWord(buf, pB, 6), 0) + SMLAD(inA6, PatchWord(buf, pB, 7), 0)
     + SMLAD(inA7, PatchWord(buf, pB, 8), 0) + SMLAD(inA8, PatchWord(buf, pB, 9), 0)

\* one pass of the scalar remainder loop of the thr tail: wt_per_byte stays 4,
\* so every column takes __USAT(*pA, 2) of the same byte, in uint8_t arithmetic
TailRestThr(buf, i, wptr, pB) ==
  LET inB1 == U8(buf[pB + 1])
      inA1 == U8(USAT(WtByte(wptr), 2) - z_wtAt(i))
  IN inA1 * inB1

\* patch elements one pass of the blocked loop of the thr tail moves pB over:
\* ten reads of *__SIMD32(pB)++, two elements each
TailBlockElems == 20

\* the accumulator of output channel i when the thr tail leaves its column loops
TailSumThr(buf, i) ==
  LET nb == PatchLen \div 16
      nr == PatchLen % 16
      w0 == i * TailRowBytes
  IN biasAt(i)
     + SumSeq([k \in 0..(nb - 1) |->
                TailBlocksThr(buf, i, w0 + 4 * k, TailBlockElems * k)], 0, nb - 1)
     + SumSeq([k \in 0..(nr - 1) |->
                TailRestThr(buf, i, w0 + 4 * nb, TailBlockElems * nb + k)], 0, nr - 1)

\* the value the thr tail stores for channel i
TailQuantThr(buf, i) == USAT(TailSumThr(buf, i), 8)

\* channel loop of the thr tail from channel i on: *pOut++ = (uint8_t) value
RECURSIVE TailThr(_, _, _)
TailThr(buf, i, st) ==
  IF i >= ch_im_out THEN st
  ELSE TailThr(buf, i + 1,
               [st EXCEPT !.out = StoreByte(@, st.pOut, U8(TailQuantThr(buf, i))),
                          !.wr = @ \cup {st.pOut},
                          !.pOut = @ + 1])

\* the tail path of either convolution, from the output cursor at: the output,
\* the cursor and the offsets stored to when it is over, with the accumulator
\* and the stored value of every channel
TailStore(out, buf, at) ==
  LET st0 == [out |-> out, pOut |-> at, per_byte |-> 4, wr |-> {}]
      st == IF fn = "icn" THEN TailIcn(buf, 0, st0) ELSE TailThr(buf, 0, st0)
  IN [out |-> st.out, pOut |-> st.pOut, wr |-> st.wr,
      acc |-> [i \in 1..ch_im_out |->
                IF fn = "icn" THEN TailSumIcn(buf, i - 1) ELSE TailSumThr(buf, i - 1)],
      q |-> [i \in 1..ch_im_out |->
              <<IF fn = "icn" THEN TailQuantIcn(buf, i - 1)
                              ELSE TailQuantThr(buf, i - 1)>>]]

\* ------------------------------------------------------------- u4 kernel
\* thresholds[t] as the caller passes it: an ascending ladder of 16 entries
\* for each output channel
thresholdsAt(t) == ((t % 16) - 8) * 25 + 3 * (t \div 16)

\* z_a[k]
z_aAt(k) == k % 3

\* __int16_to_u4: the ladder index of x, the number of entries of the channel's
\* ladder (from thresholds[base]) that x exceeds
Int16ToU4(x, base) == Cardinality({j \in 0..15 : x > thresholdsAt(base + j)})

\* what one pass of while (colCnt) adds to the sum of the weight row at wptr
\* against the patch at bptr: eight dual multiply-accumulates
KernelCols(buf, wptr, inz, bptr) ==
  SumSeq([k \in 0..7 |->
           SMLAD(SSUB16(PadU2Word(wptr, k), inz), PatchWord(buf, bptr, k), 0)], 0, 7)

\* a sum when the loop over the columns is left: its bias and every pass
KernelSum(buf, bias_i, wptr, inz, bptr) ==
  bias_i + SumSeq([c \in 0..((numCol_A \div 16) - 1) |->
                    KernelCols(buf, wptr + 4 * c, inz, bptr + 16 * c)],
                  0, (numCol_A \div 16) - 1)

\* variant: the first output in the high nibble
PackU4HighFirst(a, b) == BitOr(USAT(b, 4), BitAnd((USAT(a, 4) * 16) % 256, 240))

\* the byte stored for two u4 outputs: a | ((b << 4) & 0xF0)
PackU4(a, b) == BitOr(USAT(a, 4), BitAnd((USAT(b, 4) * 16) % 256, 240))

\* variant: the second patch takes the bias and the ladder of the next row
RowPairSumsNextRow(buf, i, wp) ==
  LET wp2 == wp + (numCol_A \div 4)
      inzA == <<z_aAt(i), z_aAt(i)>>
      inzA2 == <<z_aAt(i + 1), z_aAt(i + 1)>>
      acc == <<KernelSum(buf, biasAt(i), wp, inzA, 0),
               KernelSum(buf, biasAt(i + 1), wp, inzA, numCol_A),
               KernelSum(buf, biasAt(i + 1), wp2, inzA2, 0),
               KernelSum(buf, biasAt(i + 1), wp2, inzA2, numCol_A)>>
  IN [pA   |-> wp + 4 * (numCol_A \div 16),
      acc  |-> acc,
      sum  |-> Int16ToU4(I16(acc[1]), i * 16),
      sum2 |-> Int16ToU4(I16(acc[2]), (i + 1) * 16),
      sum3 |-> Int16ToU4(I16(acc[3]), (i + 1) * 16),
      sum4 |-> Int16ToU4(I16(acc[4]), (i + 1) * 16)]

\* the four sums of the row pair (i, i+1), quantized by the threshold ladders,
\* and pA when the loop over the columns is left
RowPairSums(buf, i, wp) ==
  LET wp2 == wp + (numCol_A \div 4)
      inzA == <<z_aAt(i), z_aAt(i)>>
      inzA2 == <<z_aAt(i + 1), z_aAt(i + 1)>>
      acc == <<KernelSum(buf, biasAt(i), wp, inzA, 0),
               KernelSum(buf, biasAt(i), wp, inzA, numCol_A),
               KernelSum(buf, biasAt(i + 1), wp2, inzA2, 0),
               KernelSum(buf, biasAt(i + 1), wp2, inzA2, numCol_A)>>
  IN [pA   |-> wp + 4 * (numCol_A \div 16),
      acc  |-> acc,
      sum  |-> Int16ToU4(I16(acc[1]), i * 16),
      sum2 |-> Int16ToU4(I16(acc[2]), i * 16),
      sum3 |-> Int16ToU4(I16(acc[3]), (i + 1) * 16),
      sum4 |-> Int16ToU4(I16(acc[4]), (i + 1) * 16)]

\* ------------------------------------------------------------ initial state
\* dim_im_out the padding, stride and kernel arithmetic implies along one axis
OutDim(d, k, s, before, after) == ((d + before + after - k) \div s) + 1

\* kernel sizes and strides of the calls drawn
Kernels == {1, 2}
Strides == {1, 2}

\* mutually consistent geometries within the bounds
Geometries ==
  {g \in [dim_im_in : 1..MaxDim, dim_kernel : Kernels, stride : Strides,
          left_padding : 0..MaxPad, right_padding : 0..MaxPad,
          top_padding : 0..MaxPad, bottom_padding : 0..MaxPad] :
     /\ g.dim_im_in + g.top_padding + g.bottom_padding >= g.dim_kernel
     /\ g.dim_im_in + g.left_padding + g.right_padding >= g.dim_kernel
     /\ OutDim(g.dim_im_in, g.dim_kernel, g.stride, g.top_padding, g.bottom_padding)
        = OutDim(g.dim_im_in, g.dim_kernel, g.stride, g.left_padding, g.right_padding)
     /\ OutDim(g.dim_im_in, g.dim_kernel, g.stride, g.top_padding, g.bottom_padding)
        <= MaxOut}

\* <<function, ch_im_in, ch_im_out>>: calls that pass the size check and calls
\* that fail it on the input side, the output side or both
ChannelCases ==
  {<<"icn", 16, 16>>, <<"icn", 4, 16>>, <<"icn", 16, 4>>, <<"icn", 8, 8>>,
   <<"thr", 4, 4>>, <<"thr", 8, 4>>, <<"thr", 6, 4>>, <<"thr", 4, 6>>, <<"thr", 2, 2>>}

ZeroPoints == {0, 1}

\* what the caller's buffers hold before the call
StaleFill == 5
OutFill == 170

\* raw input sample of logical element e (u2 for icn, u8 otherwise)
InPattern(f, e) ==
  IF f = "icn" THEN (e + (e \div 3) + (e \div 7)) % 4
               ELSE (3 * e + (e \div 5)) % 10

\* element j of the two stacked patches handed to the u4 kernel: small samples
\* for the seeds 0..3, samples of large magnitude (positive for seed 4,
\* negative for seed 5) that drive the sums out of the 16-bit range
PatchPattern(seed, j) ==
  IF seed < 4 THEN ((5 * j + (j \div 3) + seed) % 9) - 2
  ELSE (IF seed = 4 THEN 1 ELSE 0 - 1) * (2000 + 100 * (j % 7))

\* samples the memory around the input tensor may hold
Garbage == {0, 3}

ConvArgs ==
  {[fn |-> c[1], ch_im_in |-> c[2], ch_im_out |-> c[3],
    dim_im_in |-> g.dim_im_in, dim_kernel |-> g.dim_kernel, stride |-> g.stride,
    left_padding |-> g.left_padding, right_padding |-> g.right_padding,
    top_padding |-> g.top_padding, bottom_padding |-> g.bottom_padding,
    dim_im_out |-> OutDim(g.dim_im_in, g.dim_kernel, g.stride,
                          g.top_padding, g.bottom_padding),
    z_in |-> z] : c \in ChannelCases, g \in Geometries, z \in ZeroPoints}
  \cup {Example}

\* calls of the u4 kernel: row counts, column counts and patch contents
KernelArgs ==
  [fn : {"u4k"}, ch_im_out : {2, 4}, numCol_A : {4, 16, 20, 32}, seed : 0..5]

\* bytes of the packed output tensor
OutBytes ==
  IF fn = "u4k" THEN ch_im_out
  ELSE IF fn = "icn" THEN (dim_im_out * dim_im_out * ch_im_out + 3) \div 4
  ELSE dim_im_out * dim_im_out * ch_im_out

Init ==
  /\ arg \in ConvArgs \cup KernelArgs
  /\ Im_in = IF fn = "u4k" THEN <<>>
             ELSE [e \in 1..(dim_im_in * dim_im_in * ch_im_in) |-> InPattern(fn, e - 1)]
  /\ bufferA = IF fn = "u4k"
               THEN [j \in 1..(2 * numCol_A) |-> PatchPattern(arg.seed, j - 1)]
               ELSE [j \in 1..(2 * PatchLen) |-> StaleFill]
  /\ Im_out = [o \in 0..(OutBytes - 1) |-> OutFill]
  /\ pc = IF fn = "u4k" THEN "k_loop" ELSE "entry"
  /\ reg = "none"
  /\ i_out_y = 0
  /\ i_out_x = 0
  /\ pBuffer = 0
  /\ pOut = 0
  /\ status = Running
  /\ extracted = <<>>
  /\ kernelCalls = 0
  /\ tailRuns = 0
  /\ tailBase = 0
  /\ tailAcc = <<>>
  /\ quant = <<>>
  /\ i_row = 0
  /\ pA = 0
  /\ pOut2 = IF fn = "u4k" THEN ch_im_out \div 2 ELSE 0
  /\ written = {}
  /\ fresh = {}
  /\ misuse = FALSE

\* ------------------------------------------------------------------ actions
hist == <<extracted, kernelCalls, tailRuns, tailBase, tailAcc, quant, written,
          fresh, misuse>>
kvars == <<i_row, pA, pOut2>>

\* variant: the scratch buffer is cleared before the size check returns
SizeCheckAfterClear ==
  /\ pc = "entry"
  /\ bufferA' = [j \in DOMAIN bufferA |-> 0]
  /\ IF SizeMismatch(fn, ch_im_in, ch_im_out)
     THEN /\ status' = ARM_MATH_SIZE_MISMATCH
          /\ pc' = "done"
          /\ UNCHANGED <<reg, i_out_y, i_out_x>>
     ELSE LET h == LoopHead("top_y", 0, i_out_x)
          IN /\ pc' = h[1]
             /\ reg' = h[2]
             /\ i_out_y' = h[3]
             /\ i_out_x' = h[4]
             /\ UNCHANGED status
  /\ UNCHANGED <<arg, Im_in, Im_out, pBuffer, pOut, hist, kvars>>

\* variant: a failed size check returns success
SizeCheckReturnsSuccess ==
  /\ pc = "entry"
  /\ IF SizeMismatch(fn, ch_im_in, ch_im_out)
     THEN /\ status' = ARM_MATH_SUCCESS
          /\ pc' = "done"
          /\ UNCHANGED <<reg, i_out_y, i_out_x>>
     ELSE LET h == LoopHead("top_y", 0, i_out_x)
          IN /\ pc' = h[1]
             /\ reg' = h[2]
             /\ i_out_y' = h[3]
             /\ i_out_x' = h[4]
             /\ UNCHANGED status
  /\ UNCHANGED <<arg, Im_in, bufferA, Im_out, pBuffer, pOut, hist, kvars>>

\* the size check and, when it passes, the entry into the first loop
SizeCheck ==
  /\ pc = "entry"
  /\ IF SizeMismatch(fn, ch_im_in, ch_im_out)
     THEN /\ status' = ARM_MATH_SIZE_MISMATCH
          /\ pc' = "done"
          /\ UNCHANGED <<reg, i_out_y, i_out_x>>
     ELSE LET h == LoopHead("top_y", 0, i_out_x)
          IN /\ pc' = h[1]
             /\ reg' = h[2]
             /\ i_out_y' = h[3]
             /\ i_out_x' = h[4]
             /\ UNCHANGED status
  /\ UNCHANGED <<arg, Im_in, bufferA, Im_out, pBuffer, pOut, hist, kvars>>

\* one im2col loop body: the patch of position (i_out_y, i_out_x) goes to the
\* fill pointer, which advances by one patch
Extract(r, patch) ==
  /\ pc = "body"
  /\ reg = r
  /\ bufferA' = WritePatch(bufferA, pBuffer, patch)
  /\ pBuffer' = pBuffer + PatchLen
  /\ pc' = "chk"
  /\ extracted' = Append(extracted, <<i_out_y, i_out_x>>)
  /\ misuse' = (misuse \/ (pBuffer \div PatchLen) \in fresh)
  /\ fresh' = fresh \cup {pBuffer \div PatchLen}
  /\ UNCHANGED <<arg, Im_in, Im_out, reg, i_out_y, i_out_x, pOut, status,
                 kernelCalls, tailRuns, tailBase, tailAcc, quant, written, kvars>>

\* values a read outside the input tensor may return: none is needed when
\* every source element of the patch lies inside the tensor
BulkGarbage(y, x) ==
  IF /\ SrcElem(KerRow(y, 0), x * stride - top_padding) >= 0
     /\ SrcElem(KerRow(y, PatchLen - 1), x * stride - top_padding)
          + ch_im_in * dim_kernel <= Len(Im_in)
  THEN {0} ELSE Garbage

ColCheckedGarbage(y) ==
  IF KerRow(y, 0) >= 0 /\ KerRow(y, PatchLen - 1) < dim_im_in THEN {0} ELSE Garbage

TopPatch ==
  /\ pc = "body" /\ reg = "top"
  /\ Extract("top", PatchRowColChecked(i_out_y, i_out_x, 0))

LeftPatch ==
  /\ pc = "body" /\ reg = "left"
  /\ \E g \in ColCheckedGarbage(i_out_y) :
       Extract("left", PatchColChecked(i_out_y, i_out_x, g))

MidPatch ==
  /\ pc = "body" /\ reg = "mid"
  /\ \E g \in BulkGarbage(i_out_y, i_out_x) :
       Extract("mid", PatchBulk(i_out_y, i_out_x, g))

RightPatch ==
  /\ pc = "body" /\ reg = "right"
  /\ \E g \in ColCheckedGarbage(i_out_y) :
       Extract("right", PatchColChecked(i_out_y, i_out_x, g))

BottomPatch ==
  /\ pc = "body" /\ reg = "bottom"
  /\ Extract("bottom", PatchRowColChecked(i_out_y, i_out_x, 0))

\* i_out_x++ and the loop heads up to the next body or the tail check
Advance ==
  LET h == LoopHead(XHead(reg), i_out_y, I16(i_out_x + 1))
  IN /\ pc' = h[1]
     /\ reg' = h[2]
     /\ i_out_y' = h[3]
     /\ i_out_x' = h[4]

\* variant: the kernel runs but the fill pointer is left where it is
DispatchNoReset ==
  /\ pc = "chk"
  /\ pBuffer = 2 * PatchLen
  /\ Im_out' = KernelStore(Im_out, bufferA, pOut)
  /\ pOut' = pOut + 2 * BytesPerPos
  /\ written' = written \cup (pOut .. pOut + 2 * BytesPerPos - 1)
  /\ kernelCalls' = kernelCalls + 1
  /\ misuse' = (misuse \/ fresh # {0, 1})
  /\ fresh' = {}
  /\ Advance
  /\ UNCHANGED <<arg, Im_in, bufferA, pBuffer, status, extracted, tailRuns, tailBase,
                 tailAcc, quant, kvars>>

\* the scratch buffer holds two patches: the kernel runs, the fill pointer is reset
Dispatch ==
  /\ pc = "chk"
  /\ pBuffer = 2 * PatchLen
  /\ Im_out' = KernelStore(Im_out, bufferA, pOut)
  /\ pOut' = pOut + 2 * BytesPerPos
  /\ written' = written \cup (pOut .. pOut + 2 * BytesPerPos - 1)
  /\ pBuffer' = 0
  /\ kernelCalls' = kernelCalls + 1
  /\ misuse' = (misuse \/ fresh # {0, 1})
  /\ fresh' = {}
  /\ Advance
  /\ UNCHANGED <<arg, Im_in, bufferA, status, extracted, tailRuns, tailBase, tailAcc,
                 quant, kvars>>

\* the scratch buffer is not full: on to the next position
NoDispatch ==
  /\ pc = "chk"
  /\ pBuffer # 2 * PatchLen
  /\ Advance
  /\ UNCHANGED <<arg, Im_in, bufferA, Im_out, pBuffer, pOut, status, hist, kvars>>

\* left-over patch: the scalar tail path computes and stores its outputs
TailPath ==
  /\ pc = "tail"
  /\ pBuffer # 0
  /\ LET t == TailStore(Im_out, bufferA, pOut)
     IN /\ Im_out' = t.out
        /\ pOut' = t.pOut
        /\ written' = written \cup t.wr
        /\ tailAcc' = t.acc
        /\ quant' = t.q
  /\ tailRuns' = tailRuns + 1
  /\ tailBase' = pOut
  /\ misuse' = (misuse \/ 0 \notin fresh)
  /\ fresh' = fresh \ {0}
  /\ pc' = "ret"
  /\ UNCHANGED <<arg, Im_in, bufferA, reg, i_out_y, i_out_x, pBuffer, status,
                 extracted, kernelCalls, kvars>>

\* variant: the left-over check is skipped
NoTailUnguarded ==
  /\ pc = "tail"
  /\ pc' = "ret"
  /\ UNCHANGED <<arg, Im_in, bufferA, Im_out, reg, i_out_y, i_out_x, pBuffer, pOut,
                 status, hist, kvars>>

\* nothing left over
NoTail ==
  /\ pc = "tail"
  /\ pBuffer = 0
  /\ pc' = "ret"
  /\ UNCHANGED <<arg, Im_in, bufferA, Im_out, reg, i_out_y, i_out_x, pBuffer, pOut,
                 status, hist, kvars>>

\* return to application
Return ==
  /\ pc = "ret"
  /\ status' = ARM_MATH_SUCCESS
  /\ pc' = "done"
  /\ UNCHANGED <<arg, Im_in, bufferA, Im_out, reg, i_out_y, i_out_x, pBuffer, pOut,
                 hist, kvars>>

\* u4 kernel: one pass of the loop over the rows of A, rows i and i+1 against
\* both patches, one byte stored for each patch
KernelRowPair ==
  /\ pc = "k_loop"
  /\ i_row < ch_im_out
  /\ LET r == RowPairSums(bufferA, i_row, pA)
     IN /\ Im_out' = StoreByte(StoreByte(Im_out, pOut, PackU4(r.sum, r.sum3)),
                               pOut2, PackU4(r.sum2, r.sum4))
        /\ quant' = quant \o <<<<USAT(r.sum, 4), USAT(r.sum2, 4)>>,
                               <<USAT(r.sum3, 4), USAT(r.sum4, 4)>>>>
        /\ tailAcc' = tailAcc \o <<<<r.acc[1], r.acc[2]>>, <<r.acc[3], r.acc[4]>>>>
        /\ pA' = r.pA + (numCol_A \div 4)
  /\ written' = written \cup {pOut, pOut2}
  /\ pOut' = pOut + 1
  /\ pOut2' = pOut2 + 1
  /\ i_row' = i_row + 2
  /\ UNCHANGED <<arg, Im_in, bufferA, pc, reg, i_out_y, i_out_x, pBuffer, status,
                 extracted, kernelCalls, tailRuns, tailBase, fresh, misuse>>

\* variant: the cursor is returned where the loop left it
KernelReturnNoSkip ==
  /\ pc = "k_loop"
  /\ i_row >= ch_im_out
  /\ pc' = "done"
  /\ UNCHANGED <<arg, Im_in, bufferA, Im_out, reg, i_out_y, i_out_x, pBuffer, pOut,
                 status, hist, kvars>>

\* u4 kernel: the loop is over, the cursor skips the second patch's outputs
KernelReturn ==
  /\ pc = "k_loop"
  /\ i_row >= ch_im_out
  /\ pOut' = pOut + (ch_im_out \div 2)
  /\ pc' = "done"
  /\ UNCHANGED <<arg, Im_in, bufferA, Im_out, reg, i_out_y, i_out_x, pBuffer, status,
                 hist, kvars>>

Next ==
  \/ SizeCheck
  \/ TopPatch
  \/ LeftPatch
  \/ MidPatch
  \/ RightPatch
  \/ BottomPatch
  \/ Dispatch
  \/ NoDispatch
  \/ TailPath
  \/ NoTail
  \/ Return
  \/ KernelRowPair
  \/ KernelReturn

Spec == Init /\ [][Next]_vars


\* =============================================================== properties
Conv == fn # "u4k"
Succeeded == Conv /\ pc = "done" /\ status = ARM_MATH_SUCCESS

\* ----------------------------------------------------------------------- C1
\* C1: a returned convolution call has status ARM_MATH_SIZE_MISMATCH exactly
\* when ch_im_in or ch_im_out is not a multiple of 16 (icn) or of 4 (thr); every
\* other returned call, whatever its geometry, has ARM_MATH_SUCCESS; no call
\* carries a status before it returns.
C1_StatusByDivisibility ==
  Conv =>
    /\ pc # "done" => status = Running
    /\ pc = "done" =>
         LET unit == IF fn = "icn" THEN 16 ELSE 4
         IN status = IF ch_im_in % unit # 0 \/ ch_im_out % unit # 0
                     THEN ARM_MATH_SIZE_MISMATCH
                     ELSE ARM_MATH_SUCCESS

\* a thr call with channel counts that are multiples of 4 but not of 16, on a
\* padded geometry, has returned success
C1_Witness ==
  /\ fn = "thr" /\ ch_im_in = 8 /\ ch_im_out = 4
  /\ top_padding = 2 /\ left_padding = 1
  /\ pc = "done" /\ status = ARM_MATH_SUCCESS

\* ----------------------------------------------------------------------- C2
\* C2: a call that returned the size-mismatch status has written nothing: all
\* of Im_out and bufferA hold what they held at the call, no patch was
\* extracted, neither the dot-product kernel nor the tail path ran.
C2_MismatchWritesNothing ==
  (Conv /\ status = ARM_MATH_SIZE_MISMATCH) =>
    /\ DOMAIN Im_out = 0..(OutBytes - 1)
    /\ \A o \in DOMAIN Im_out : Im_out[o] = OutFill
    /\ \A j \in DOMAIN bufferA : bufferA[j] = StaleFill
    /\ written = {}
    /\ extracted = <<>>
    /\ kernelCalls = 0
    /\ tailRuns = 0
    /\ pBuffer = 0 /\ pOut = 0

\* an icn call whose input channel count fails the check has returned
C2_Witness ==
  /\ fn = "icn" /\ ch_im_in = 4 /\ ch_im_out = 16
  /\ pc = "done" /\ status = ARM_MATH_SIZE_MISMATCH

\* ----------------------------------------------------------------------- C3
\* the patch of output position (y, x) of the unpadded run on the input
\* extended with raw 0 samples: an out-of-bounds sample is raw 0, and the
\* zero-point is subtracted from every sample
RefPatch(y, x) ==
  [j \in 1..PatchLen |->
    LET r == KerRow(y, j - 1)
        c == KerCol(x, j - 1)
    IN (IF r < 0 \/ r >= dim_im_in \/ c < 0 \/ c >= dim_im_in
        THEN 0
        ELSE Im_in[(r * dim_im_in + c) * ch_im_in
                   + ReorderIdx((j - 1) % ch_im_in, ch_im_in) + 1]) - z_in]

\* the output of that run after k positions: pairs of patches go through the
\* kernel, a final unpaired patch through the tail path
RECURSIVE RefRun(_, _, _)
RefRun(k, buf, out) ==
  LET P == dim_im_out * dim_im_out
      patch(n) == RefPatch(n \div dim_im_out, n % dim_im_out)
  IN IF k + 2 <= P
     THEN LET b == patch(k) \o patch(k + 1)
          IN RefRun(k + 2, b, KernelStore(out, b, k * BytesPerPos))
     ELSE IF k + 1 = P
     THEN TailStore(out, WritePatch(buf, 0, patch(k)), k * BytesPerPos).out
     ELSE out

RefOut ==
  RefRun(0, [j \in 1..(2 * PatchLen) |-> StaleFill],
         [o \in 0..(OutBytes - 1) |-> OutFill])

\* C3: for any four paddings and any z_in, the output of a successful padded
\* call is bit-identical to the output of the unpadded run on the input
\* extended with raw 0 samples.
C3_PaddedEqualsManuallyExtended ==
  Succeeded => Im_out = RefOut

\* ----------------------------------------------------------------------- C4
\* the patch just written at the fill pointer
LastPatch == SubSeq(bufferA, pBuffer - PatchLen + 1, pBuffer)

\* C4: for every output position of the interior region the bulk copy leaves
\* in the scratch buffer the patch the bounds-checked per-pixel loop produces
\* for the origin (i_out_y*stride - top_pad, i_out_x*stride - left_pad).
C4_BulkEqualsChecked ==
  (Conv /\ pc = "chk" /\ reg = "mid") =>
    LastPatch = PatchRowColChecked(i_out_y, i_out_x, 0)

\* ----------------------------------------------------------------------- C5
\* the output positions in row-major order
RowMajor ==
  [k \in 1..(dim_im_out * dim_im_out) |->
    <<(k - 1) \div dim_im_out, (k - 1) % dim_im_out>>]

\* C5: for every consistent geometry the positions a patch is built for are,
\* at every moment, a prefix of the row-major order of
\* [0, dim_im_out) x [0, dim_im_out), and all of it once the loops are over.
C5_RegionsPartition ==
  Conv =>
    /\ Len(extracted) <= dim_im_out * dim_im_out
    /\ extracted = SubSeq(RowMajor, 1, Len(extracted))
    /\ (pc \in {"tail", "ret"} \/ Succeeded) => extracted = RowMajor

\* ----------------------------------------------------------------------- C6
\* C6: the fill level is always 0, one patch or two patches and never above
\* the capacity of bufferA; a step dispatches the kernel exactly when it
\* starts at the level of two patches, and that step resets the fill pointer
\* and writes no patch.
C6_FillLevelAndDispatch ==
  /\ [](Conv => /\ pBuffer \in {0, PatchLen, 2 * PatchLen}
                /\ pBuffer <= Len(bufferA))
  /\ [][Conv =>
          \/ /\ pBuffer = 2 * PatchLen
             /\ kernelCalls' = kernelCalls + 1
             /\ pBuffer' = 0
             /\ extracted' = extracted
          \/ /\ pBuffer # 2 * PatchLen
             /\ kernelCalls' = kernelCalls
             /\ (extracted' # extracted => pBuffer' = pBuffer + PatchLen)]_vars

\* after a dispatch the next patch went to the start of bufferA
C6_Witness ==
  /\ Conv /\ pc = "chk"
  /\ kernelCalls = 1 /\ pBuffer = PatchLen /\ Len(extracted) = 3

\* ----------------------------------------------------------------------- C7
\* C7: no patch is overwritten unread or consumed twice, and none is left
\* unconsumed at the return; the tail path runs at most once, only from the
\* end of the loops with a non-empty buffer, and always then; it ran exactly
\* when the number of extracted positions is odd; after it nothing is
\* extracted or dispatched and the next step is the return.
C7_FillDispatchDrain ==
  /\ [](Conv =>
          /\ ~misuse
          /\ tailRuns <= 1
          /\ (tailRuns = 1 => pc \in {"ret", "done"})
          /\ ((pc = "ret" \/ Succeeded) =>
                /\ fresh = {}
                /\ (tailRuns = 1 <=> Len(extracted) % 2 = 1)
                /\ kernelCalls = Len(extracted) \div 2))
  /\ [][Conv =>
          /\ (tailRuns' # tailRuns =>
                pc = "tail" /\ pBuffer # 0 /\ tailRuns' = tailRuns + 1 /\ pc' = "ret")
          /\ (pc = "tail" =>
                /\ pc' = "ret"
                /\ (pBuffer # 0 => tailRuns' = tailRuns + 1))
          /\ (pc = "ret" =>
                /\ pc' = "done"
                /\ status' = ARM_MATH_SUCCESS
                /\ extracted' = extracted
                /\ kernelCalls' = kernelCalls
                /\ tailRuns' = tailRuns)]_vars

\* a call whose positions went through a dispatch and then the tail path
C7_Witness ==
  /\ Succeeded
  /\ kernelCalls = 4 /\ tailRuns = 1 /\ Len(extracted) = 9

\* ----------------------------------------------------------------------- C8
\* C8: after the tail path ran, the accumulator it computed for every output
\* channel i is the bulk path's bias-seeded signed dot product over all N
\* columns of the patch, and the value it stored is the bulk requantization of
\* that accumulator.
C8_TailEqualsBulk ==
  (Conv /\ tailRuns = 1) =>
    /\ Len(tailAcc) = ch_im_out
    /\ Len(quant) = ch_im_out
    /\ \A i \in 0..(ch_im_out - 1) :
         /\ tailAcc[i + 1] = KernelAcc(i, bufferA, 0)
         /\ quant[i + 1][1] =
              IF fn = "icn" THEN USAT(IcnRequant(KernelAcc(i, bufferA, 0), i), 2)
                            ELSE ThrRequantU8(KernelAcc(i, bufferA, 0))

C10_OutputFullyWritten ==
  (fn = "icn" /\ pc = "done" /\ status = ARM_MATH_SUCCESS) =>
    /\ written = 0..(OutBytes - 1)
    /\ tailRuns = 1 =>
         /\ pOut = tailBase + (ch_im_out \div 4)
         /\ (tailBase .. tailBase + (ch_im_out \div 4) - 1) \subseteq written

\* ---------------------------------------------------------------------- C11
\* bias[row] plus the signed dot product of weight row `row` with the patch in
\* the given slot over every column of [0, numCol_A): scratch position p holds
\* logical column ReorderIdx(p, numCol_A), whose weight is the 2-bit field at
\* flat index row*numCol_A + that column
FullSpanSum(buf, row, slot) ==
  biasAt(row)
  + SumSeq([p \in 0..(numCol_A - 1) |->
             LET c == row * numCol_A + ReorderIdx(p, numCol_A)
             IN (U2Field(WtByte(c \div 4), c % 4) - z_aAt(row))
                * buf[slot * numCol_A + p + 1]], 0, numCol_A - 1)

\* C11: in the u4 kernel, for every row already computed and each of the two
\* stacked patches, the accumulator handed to requantization is bias[row] plus
\* the sum over every column of [0, numCol_A) of (w[row][c] - z_a[row]) * patch[c].
C11_FullColumnSpan ==
  fn = "u4k" =>
    \A r \in 0..(i_row - 1) :
      /\ tailAcc[r + 1][1] = FullSpanSum(bufferA, r, 0)
      /\ tailAcc[r + 1][2] = FullSpanSum(bufferA, r, 1)

\* ---------------------------------------------------------------------- C12
\* C12: one call of the u4 kernel stores only inside [pOut, pOut + ch_im_out),
\* every step of the row loop storing one byte of the first half and one of
\* the second half, neither stored before; it changes nothing else, and when
\* it returns all ch_im_out bytes are stored, the first ch_im_out/2 holding
\* the first patch's outputs and the next ch_im_out/2 the second patch's, and
\* the cursor returned is pOut + ch_im_out.
C12_KernelWritesItsBlock ==
  /\ [](fn = "u4k" =>
          /\ written \subseteq 0..(ch_im_out - 1)
          /\ DOMAIN Im_out = 0..(ch_im_out - 1)
          /\ \A o \in (DOMAIN Im_out) \ written : Im_out[o] = OutFill
          /\ pc = "done" =>
               /\ written = 0..(ch_im_out - 1)
               /\ pOut = ch_im_out
               /\ \A r \in 0..((ch_im_out \div 2) - 1) :
                    /\ Im_out[r] % 16 = quant[2 * r + 1][1]
                    /\ Im_out[r] \div 16 = quant[2 * r + 2][1]
                    /\ Im_out[(ch_im_out \div 2) + r] % 16 = quant[2 * r + 1][2]
                    /\ Im_out[(ch_im_out \div 2) + r] \div 16 = quant[2 * r + 2][2])
  /\ [][fn = "u4k" =>
          /\ bufferA' = bufferA
          /\ \A o \in DOMAIN Im_out :
               Im_out'[o] # Im_out[o] => o \in {pOut, pOut2}
          /\ written' # written =>
               /\ written' = written \cup {pOut, pOut2}
               /\ pOut < ch_im_out \div 2
               /\ pOut2 = pOut + (ch_im_out \div 2)
               /\ pOut \notin written
               /\ pOut2 \notin written]_vars

\* a call for four rows has returned
C12_Witness ==
  /\ fn = "u4k" /\ pc = "done" /\ ch_im_out = 4
  /\ written = 0..3 /\ pOut = 4

\* ---------------------------------------------------------------------- C13
\* the ladder of output channel r
Ladder(r) == {thresholdsAt(16 * r + j) : j \in 0..15}

\* C13: in the u4 kernel the stored 4-bit value clamps and never wraps: an
\* accumulator above every threshold of the row's ladder is stored as the top
\* code 15, one not above any threshold as 0, and of the two patches of a row,
\* which share the ladder, the one with the larger accumulator never gets the
\* smaller code - whatever the size of the 32-bit accumulators.
C13_ClampsNeverWraps ==
  fn = "u4k" =>
    \A r \in 0..(i_row - 1) :
      /\ \A s \in 1..2 :
           /\ (\A t \in Ladder(r) : tailAcc[r + 1][s] > t) => quant[r + 1][s] = 15
           /\ (\A t \in Ladder(r) : tailAcc[r + 1][s] <= t) => quant[r + 1][s] = 0
      /\ tailAcc[r + 1][1] <= tailAcc[r + 1][2] => quant[r + 1][1] <= quant[r + 1][2]
      /\ tailAcc[r + 1][2] <= tailAcc[r + 1][1] => quant[r + 1][2] <= quant[r + 1][1]

\* ---------------------------------------------------------------------- C14
\* the direct integer convolution sum of the example at output position
\* (y, x): weight zero-point 0, input zero-point 0, bias 0
DirectSum(y, x) ==
  SumSeq([j \in 0..8 |->
           WtByte(j) * Im_in[(y + (j \div 3)) * dim_im_in + x + (j % 3) + 1]], 0, 8)

\* C14 (as stated): the example call succeeds and the value stored for each of
\* the 9 output positions is the direct convolution sum, folded by sum>>15 and
\* saturated to 2 bits.
C14_ExampleSucceeds ==
  (IsExample /\ pc = "done") =>
    /\ status = ARM_MATH_SUCCESS
    /\ \A p \in 0..8 :
         /\ (p \div 4) \in written
         /\ U2Field(Im_out[p \div 4], p % 4)
              = USAT(DirectSum(p \div 3, p % 3) \div (2 ^ 15), 2)

\* C14 (amended): the example call, whose channel count 1 is not a multiple
\* of 16, goes from the size check straight to the return, returns
\* ARM_MATH_SIZE_MISMATCH and extracts, computes and stores nothing.
C14_ExampleIsRejected ==
  IsExample =>
    /\ pc \in {"entry", "done"}
    /\ pc = "done" => status = ARM_MATH_SIZE_MISMATCH
    /\ extracted = <<>> /\ kernelCalls = 0 /\ tailRuns = 0
    /\ written = {}
    /\ \A o \in DOMAIN Im_out : Im_out[o] = OutFill

\* the example call has returned
C14_Witness ==
  IsExample /\ pc = "done" /\ Len(Im_in) = 25 /\ status # Running

\* ---------------------------------------------------------------------- C15
\* Loop control of a convolution call on its own: the counters, the fill
\* pointer and the position of the call, with the tensors left out, so that
\* calls with a 16-bit dim_im_out can be followed.

\* a geometry with dim_im_out above 32767
LargeDim == 40000

\* a channel count and a kernel size whose patch has 2^18 elements
LargeChannels == 4096
LargeKernel == 8

\* calls followed by the loop-control specification: every small call that
\* passes or fails the size check without padding beyond the output, a call
\* whose output is LargeDim x LargeDim, and a call with one output position
\* whose patch is LargeChannels x LargeKernel x LargeKernel
LoopArgs ==
  {a \in ConvArgs : a.z_in = 0 /\ a.top_padding <= a.dim_im_out
                    /\ a.left_padding <= a.dim_im_out}
  \cup {[fn |-> f, ch_im_in |-> 16, ch_im_out |-> 16, dim_im_in |-> LargeDim,
         dim_kernel |-> 3, stride |-> 1, left_padding |-> 1, right_padding |-> 1,
         top_padding |-> 1, bottom_padding |-> 1, dim_im_out |-> LargeDim,
         z_in |-> 0] : f \in {"icn", "thr"}}
  \cup {[fn |-> "icn", ch_im_in |-> LargeChannels, ch_im_out |-> 16,
         dim_im_in |-> LargeKernel, dim_kernel |-> LargeKernel, stride |-> 1,
         left_padding |-> 0, right_padding |-> 0, top_padding |-> 0,
         bottom_padding |-> 0, dim_im_out |-> 1, z_in |-> 0]}

LoopInit ==
  /\ arg \in LoopArgs
  /\ Im_in = <<>> /\ bufferA = <<>> /\ Im_out = <<>>
  /\ pc = "entry" /\ reg = "none"
  /\ i_out_y = 0 /\ i_out_x = 0
  /\ pBuffer = 0 /\ pOut = 0
  /\ status = Running
  /\ extracted = <<>> /\ kernelCalls = 0 /\ tailRuns = 0 /\ tailBase = 0
  /\ tailAcc = <<>> /\ quant = <<>>
  /\ i_row = 0 /\ pA = 0 /\ pOut2 = 0
  /\ written = {} /\ fresh = {} /\ misuse = FALSE

\* an im2col body, whose loops over the kernel window are bounded by dim_kernel
LoopExtract ==
  /\ pc = "body"
  /\ pBuffer' = pBuffer + PatchLen
  /\ pc' = "chk"
  /\ UNCHANGED <<arg, Im_in, bufferA, Im_out, reg, i_out_y, i_out_x, pOut, status,
                 hist, kvars>>

\* the buffer is full: kernel call and counter reset
LoopDispatch ==
  /\ pc = "chk"
  /\ pBuffer = 2 * PatchLen
  /\ pBuffer' = 0
  /\ Advance
  /\ UNCHANGED <<arg, Im_in, bufferA, Im_out, pOut, status, hist, kvars>>

\* the tail path is entered: i = 0
LoopTailEnter ==
  /\ pc = "tail"
  /\ pBuffer # 0
  /\ pc' = "tail_i"
  /\ i_row' = 0
  /\ UNCHANGED <<arg, Im_in, bufferA, Im_out, reg, i_out_y, i_out_x, pBuffer, pOut,
                 status, hist, pA, pOut2>>

\* one output channel of the tail path (its column loops count colCnt down to 0)
LoopTailChannel ==
  /\ pc = "tail_i"
  /\ i_row < ch_im_out
  /\ i_row' = i_row + 1
  /\ UNCHANGED <<arg, Im_in, bufferA, Im_out, pc, reg, i_out_y, i_out_x, pBuffer, pOut,
                 status, hist, pA, pOut2>>

\* the channel loop of the tail path is over
LoopTailExit ==
  /\ pc = "tail_i"
  /\ i_row >= ch_im_out
  /\ pc' = "ret"
  /\ UNCHANGED <<arg, Im_in, bufferA, Im_out, reg, i_out_y, i_out_x, pBuffer, pOut,
                 status, hist, kvars>>

LoopNext ==
  \/ SizeCheck
  \/ LoopExtract
  \/ LoopDispatch
  \/ NoDispatch
  \/ LoopTailEnter
  \/ LoopTailChannel
  \/ LoopTailExit
  \/ NoTail
  \/ Return

\* the call runs on its own thread and is never suspended: it always takes its
\* next step
LoopSpec == LoopInit /\ [][LoopNext]_vars /\ WF_vars(LoopNext)

\* C15: every convolution call, whatever its geometry arguments, eventually
\* returns a status.
C15_EveryCallReturns == <>(pc = "done" /\ status # Running)

\* ---------------------------------------------------------------------- C16
\* what bufferA holds at the call in a second call with the same arguments
OtherFill == 9

\* bufferA of that second call at the same point: extraction writes the same
\* patches to the same slots, so the two buffers differ exactly in the slots no
\* patch was written to since the call (slot 0 is written by the first
\* position, slot 1 by the second)
OtherRunBuffer ==
  [j \in DOMAIN bufferA |->
    IF (Len(extracted) < 1 /\ j <= PatchLen) \/ (Len(extracted) < 2 /\ j > PatchLen)
    THEN OtherFill ELSE bufferA[j]]

\* C16: the output does not depend on what bufferA held at the call: every
\* kernel dispatch consumes two patches written during the call, and the
\* tail path run on the buffer of a call that started with other scratch
\* contents computes the same accumulators and stores the same bytes.
C16_OutputIgnoresStaleScratch ==
  Conv =>
    /\ ~misuse
    /\ tailRuns = 1 =>
         LET t == TailStore(Im_out, OtherRunBuffer, tailBase)
         IN /\ t.acc = tailAcc
            /\ t.q = quant
            /\ t.out = Im_out

\* ---------------------------------------------------------------------- C17
\* C17: a convolution call stores only into the output tensor and the scratch
\* buffer: every store through pOut lands inside the OutBytes bytes of Im_out,
\* every patch inside the two slots of bufferA, and the input tensor holds
\* what it held at the call - before, during and after the call, on both
\* outcomes.
C17_WritesOnlyOutputAndScratch ==
  Conv =>
    /\ Im_in = [e \in 1..(dim_im_in * dim_im_in * ch_im_in) |-> InPattern(fn, e - 1)]
    /\ written \subseteq 0..(OutBytes - 1)
    /\ DOMAIN Im_out = 0..(OutBytes - 1)
    /\ Len(bufferA) = 2 * PatchLen
    /\ pBuffer <= 2 * PatchLen

\* ---------------------------------------------------------------------- C18
\* input coordinates <<row, column>> of the pixels the Codec calls of one loop
\* body read, for the body of region r at output position (y, x): the top and
\* bottom bodies call the Codec for the pixels that pass the row and column
\* tests, the left and right bodies for those that pass the column test, and
\* the bulk copy of the mid body reads dim_kernel pixels of every kernel row
\* from column x*stride - top_padding on
RegionReads(r, y, x) ==
  LET K == 0..(dim_kernel - 1)
      row(ky) == y * stride - top_padding + ky
      col(kx) == x * stride - left_padding + kx
  IN CASE r \in {"top", "bottom"} ->
            {<<row(ky), col(kx)>> : ky \in K, kx \in K}
              \cap ((0..(dim_im_in - 1)) \X (0..(dim_im_in - 1)))
       [] r \in {"left", "right"} ->
            {c \in {<<row(ky), col(kx)>> : ky \in K, kx \in K} :
               c[2] >= 0 /\ c[2] < dim_im_in}
       [] OTHER ->
            {<<row(ky), x * stride - top_padding + kx>> : ky \in K, kx \in K}

\* C18: the body that just ran, in whichever region, read only input pixels
\* with row and column in [0, dim_im_in).
C18_ReadsInsideInput ==
  (Conv /\ pc = "chk") =>
    \A c \in RegionReads(reg, i_out_y, i_out_x) :
      /\ c[1] >= 0 /\ c[1] < dim_im_in
      /\ c[2] >= 0 /\ c[2] < dim_im_in

\* ---------------------------------------------------------------------- C19
\* C19: when the tail path of the thr convolution ran its blocked loop, every
\* pass paired its 16 weights with 16 consecutive patch elements, each weight
\* with its zero-point subtracted once (the sixteen products of one pass of the
\* u4 kernel's column loop), the patch cursor advanced by 16*(N>>4) elements in
\* all, and no element at index N or beyond was read.
C19_TailBlockReadsSixteen ==
  (fn = "thr" /\ tailRuns = 1 /\ PatchLen >= 16) =>
    LET nb == PatchLen \div 16
    IN /\ TailBlockElems * nb = 16 * nb
       /\ TailBlockElems * nb <= PatchLen
       /\ \A i \in 0..(ch_im_out - 1) : \A k \in 0..(nb - 1) :
            TailBlocksThr(bufferA, i, i * TailRowBytes + 4 * k, TailBlockElems * k)
              = KernelCols(bufferA, i * TailRowBytes + 4 * k,
                           <<z_wtAt(i), z_wtAt(i)>>, 16 * k)

\* ---------------------------------------------------------------------- C20
\* C20: when the tail path of the thr convolution ran with N not a multiple of
\* 16, remainder column k of channel i was multiplied by the k-th successive
\* 2-bit field of the channel's weights from the byte the blocked loop left
\* off at (field k mod 4 of byte k div 4), less the channel's zero-point as a
\* signed value, and a channel moved the weight pointer over its whole row of
\* N/4 bytes.
C20_TailRemainderWalksWeights ==
  (fn = "thr" /\ tailRuns = 1 /\ PatchLen % 16 # 0) =>
    LET nb == PatchLen \div 16
        nr == PatchLen % 16
    IN /\ TailRowBytes = PatchLen \div 4
       /\ \A i \in 0..(ch_im_out - 1) : \A k \in 0..(nr - 1) :
            LET wrow == i * (PatchLen \div 4) + 4 * nb
            IN TailRestThr(bufferA, i, i * TailRowBytes + 4 * nb, TailBlockElems * nb + k)
                 = (U2Field(WtByte(wrow + (k \div 4)), k % 4) - z_wtAt(i))
                   * U8(bufferA[TailBlockElems * nb + k + 1])


\* ---------------------------------------------------------------------- C21
\* the bytes of the weight matrix that the loop over the columns reads for
\* the row starting at wptr: four bytes for each pass
RowReads(wptr) == {wptr + b : b \in 0..(4 * (numCol_A \div 16) - 1)}

\* the bytes of the weight matrix that belong to row r
RowBytes(r) == {r * (numCol_A \div 4) + b : b \in 0..((numCol_A \div 4) - 1)}

\* C21: in the u4 kernel, when the step of the row pair (i, i+1) starts, pA is
\* at byte i*(numCol_A/4) of the weights and pA2 at byte (i+1)*(numCol_A/4),
\* for every row pair and every numCol_A that is a multiple of 4, so that the
\* step reads no weight of another row
C21_WeightPointersAtRowStart ==
  (fn = "u4k" /\ pc = "k_loop" /\ i_row < ch_im_out) =>
    LET pA2 == pA + (numCol_A \div 4)
    IN /\ pA = i_row * (numCol_A \div 4)
       /\ pA2 = (i_row + 1) * (numCol_A \div 4)
       /\ RowReads(pA) \subseteq RowBytes(i_row)
       /\ RowReads(pA2) \subseteq RowBytes(i_row + 1)


\* ---------------------------------------------------------------------- C22
\* the indices of bias, z_a and thresholds that the step of the row pair
\* (i, i+1) reads
KernelReads(i) ==
  [bias       |-> {i, i + 1},
   z_a        |-> {i, i + 1},
   thresholds |-> {16 * i + j : j \in 0..15} \cup {16 * (i + 1) + j : j \in 0..15}]

\* pA or pA2 when the loop over the columns starts on row k
RowWeights(k) ==
  (k \div 2) * (4 * (numCol_A \div 16) + (numCol_A \div 4))
    + (k % 2) * (numCol_A \div 4)

\* C22: for even ch_im_out the u4 kernel takes exactly ch_im_out/2 row-pair
\* steps; a step reads bias and z_a only at indices below ch_im_out and
\* thresholds only below 16*ch_im_out; channel k is quantized by the 16
\* thresholds from 16*k, and both patches of a row take that row's bias,
\* zero-point and ladder
C22_RowPairStepsAndReads ==
  (fn = "u4k" /\ ch_im_out % 2 = 0) =>
    /\ i_row % 2 = 0 /\ i_row <= ch_im_out
    /\ Len(tailAcc) = i_row /\ Len(quant) = i_row
    /\ pc = "done" => i_row \div 2 = ch_im_out \div 2
    /\ (pc = "k_loop" /\ i_row < ch_im_out) =>
         /\ KernelReads(i_row).bias \subseteq 0..(ch_im_out - 1)
         /\ KernelReads(i_row).z_a \subseteq 0..(ch_im_out - 1)
         /\ KernelReads(i_row).thresholds \subseteq 0..(16 * ch_im_out - 1)
    /\ \A k \in 0..(Len(tailAcc) - 1) : \A p \in 1..2 :
         /\ tailAcc[k + 1][p]
              = KernelSum(bufferA, biasAt(k), RowWeights(k),
                          <<z_aAt(k), z_aAt(k)>>, (p - 1) * numCol_A)
         /\ quant[k + 1][p]
              = USAT(Cardinality({j \in 0..15 :
                        I16(tailAcc[k + 1][p]) > thresholdsAt(16 * k + j)}), 4)

\* the kernel returned after two row-pair steps
C22_Witness ==
  /\ fn = "u4k" /\ pc = "done"
  /\ ch_im_out = 4 /\ numCol_A = 32
  /\ i_row = 4 /\ Len(quant) = 4
  /\ quant[1] # quant[2]


\* ---------------------------------------------------------------------- C23
\* C23: in the icn convolution, once the size check has passed, N is a
\* multiple of 4, the scalar remainder loop of the tail path makes no pass for
\* any channel, and the blocked loop of four columns a pass covers all N
\* columns of the dot product
C23_TailRemainderNeverRuns ==
  (fn = "icn" /\ pc # "entry" /\ status # ARM_MATH_SIZE_MISMATCH) =>
    /\ PatchLen % 4 = 0
    /\ TailRestCntIcn = 0
    /\ 4 * TailColCntIcn = PatchLen
    /\ tailRuns = 1 =>
         \A i \in 0..(ch_im_out - 1) :
           tailAcc[i + 1]
             = biasAt(i)
               + SumSeq([k \in 0..((PatchLen \div 4) - 1) |->
                          TailBlocksIcn(bufferA, i * TailRowBytes + 4 * k, 4 * k)],
                        0, (PatchLen \div 4) - 1)

====
